---- MODULE Spec2Model ----
(***************************************************************************)
(* Serverless entry point of the Student API (api/index.ts) and its        *)
(* database configuration factory.                                         *)
(*                                                                         *)
(* The process holds one module-level variable, cachedApp.  Every request  *)
(* runs handler(req, res), which awaits createNestApp().  JavaScript runs  *)
(* each stretch of code between two awaits without interruption, so an     *)
(* action below is one such stretch; several handler invocations may be    *)
(* suspended at their awaits at the same time and resume in any order.     *)
(***************************************************************************)
EXTENDS Integers, Sequences, FiniteSets, TLC

VARIABLES
    env,        \* process.env, fixed for the lifetime of the process
    cachedApp,  \* the module-level cache: NULL or the handle of an instance
    runs,       \* every call of NestFactory.create so far, with what was done on its instance
    observed,   \* per handler invocation: what `if (cachedApp)` read
    pc,         \* per invocation slot: where the invocation is suspended
    inv,        \* per slot: the invocation occupying it
    cur,        \* per slot: createNestApp's local `app`
    result,     \* per slot: how the promise of createNestApp() settled
    thrown,     \* per slot: the message of the error thrown inside handler's try block
    res,        \* per slot: the calls handler made on `res`
    dispatched, \* per slot: the instance whose express app was given (req, res)
    dbOptions   \* what the registerAs('database') factory returned, once called

vars == <<env, cachedApp, runs, observed, pc, inv, cur, result, thrown, res, dispatched, dbOptions>>

-----------------------------------------------------------------------------
(* Bounds of the model *)

\* invocation slots: how many handler invocations may be in flight at once
MaxConcurrent == 2

\* handler invocations over the lifetime of the process
MaxInvocations == 3

\* length of the text of DATABASE_PORT
MaxPortLen == 3

-----------------------------------------------------------------------------
(* Values *)

\* JavaScript's null, the initial value of cachedApp; handles are 1, 2, ...
NULL == 0

\* the value of an environment variable that is not set
Undefined == "<undefined>"

Slots == 1..MaxConcurrent

\* a || d on strings: undefined and the empty string are falsy
OrDefault(v, d) == IF v = Undefined \/ v = "" THEN d ELSE v

NodeEnvValues == {Undefined, "production", "development", "staging", "PRODUCTION"}

SwaggerEnabledValues == {Undefined, "true", "false", "TRUE"}

-----------------------------------------------------------------------------
(* parseInt(text, 10) || 5432 *)

PortChars == {"0", "7", "-", " ", "x"}

Digits == {"0", "1", "2", "3", "4", "5", "6", "7", "8", "9"}

DigitValue(c) ==
    CASE c = "0" -> 0 [] c = "1" -> 1 [] c = "2" -> 2 [] c = "3" -> 3
      [] c = "4" -> 4 [] c = "5" -> 5 [] c = "6" -> 6 [] c = "7" -> 7
      [] c = "8" -> 8 [] c = "9" -> 9

RECURSIVE TrimStart(_)
TrimStart(s) ==
    IF s # <<>> /\ Head(s) = " " THEN TrimStart(Tail(s)) ELSE s

RECURSIVE DigitPrefix(_)
DigitPrefix(s) ==
    IF s # <<>> /\ Head(s) \in Digits
    THEN <<Head(s)>> \o DigitPrefix(Tail(s))
    ELSE <<>>

RECURSIVE DecimalValue(_)
DecimalValue(z) ==
    IF z = <<>> THEN 0
    ELSE 10 * DecimalValue(SubSeq(z, 1, Len(z) - 1)) + DigitValue(z[Len(z)])

NaN == [nan |-> TRUE, value |-> 0]

\* parseInt(v, 10): leading white space is skipped, one sign is read, then the
\* longest run of digits; no digit at all gives NaN, and so does undefined
parseInt(v) ==
    IF ~v.defined THEN NaN
    ELSE LET t == TrimStart(v.text)
             signed == t # <<>> /\ Head(t) \in {"+", "-"}
             sign == IF t # <<>> /\ Head(t) = "-" THEN -1 ELSE 1
             z == DigitPrefix(IF signed THEN Tail(t) ELSE t)
         IN  IF z = <<>> THEN NaN
             ELSE [nan |-> FALSE, value |-> sign * DecimalValue(z)]

DefaultPort == 5432

\* n || d on numbers: NaN and 0 are falsy
OrNumber(n, d) == IF n.nan \/ n.value = 0 THEN d ELSE n.value

RECURSIVE TextsUpTo(_)
TextsUpTo(n) ==
    IF n = 0 THEN {<<>>}
    ELSE LET shorter == TextsUpTo(n - 1)
         IN  shorter \cup {Append(t, c) : t \in shorter, c \in PortChars}

PortValues ==
    {[defined |-> FALSE, text |-> <<>>]}
        \cup {[defined |-> TRUE, text |-> t] : t \in TextsUpTo(MaxPortLen)}

-----------------------------------------------------------------------------
(* The database configuration factory *)

Ssl_always(nodeEnv) == [enabled |-> TRUE, rejectUnauthorized |-> FALSE]

\* ssl: false, or the options object { rejectUnauthorized: false }
Ssl(nodeEnv) ==
    IF nodeEnv = "production"
    THEN [enabled |-> TRUE, rejectUnauthorized |-> FALSE]
    ELSE [enabled |-> FALSE, rejectUnauthorized |-> FALSE]

databaseConfig(e) ==
    [ type          |-> "postgres",
      host          |-> OrDefault(e.DATABASE_HOST, "localhost"),
      port          |-> OrNumber(parseInt(e.DATABASE_PORT), DefaultPort),
      username      |-> OrDefault(e.DATABASE_USERNAME, "student_api"),
      password      |-> OrDefault(e.DATABASE_PASSWORD, "password"),
      database      |-> OrDefault(e.DATABASE_NAME, "student_db"),
      entities      |-> <<"User", "Student">>,
      synchronize   |-> e.NODE_ENV # "production",
      logging       |-> e.NODE_ENV = "development",
      ssl           |-> Ssl(e.NODE_ENV),
      migrations    |-> <<>>,
      migrationsTableName |-> "migrations",
      migrationsRun |-> FALSE ]

-----------------------------------------------------------------------------
(* createNestApp *)

shouldEnableSwagger_flagOnly(e) == e.SWAGGER_ENABLED = "true"

shouldEnableSwagger(e) ==
    \/ e.SWAGGER_ENABLED = "true"
    \/ e.NODE_ENV = "development"
    \/ e.NODE_ENV # "production"

\* the path SwaggerModule.setup mounts the documentation at
DocsPath == "api/docs"

\* app.useGlobalInterceptors(new LoggingInterceptor(), new TransformInterceptor())
GlobalInterceptors == <<"LoggingInterceptor", "TransformInterceptor">>

SetupSteps_initFirst(e) ==
    <<"app.init", "helmet", "compression", "enableCors", "setGlobalPrefix",
      "useGlobalPipes", "useGlobalFilters", "useGlobalInterceptors">>

\* the calls createNestApp makes on the new instance between the two awaits,
\* in the order of the code; any of them may throw
SetupSteps(e) ==
    <<"helmet", "compression", "enableCors", "setGlobalPrefix",
      "useGlobalPipes", "useGlobalFilters", "useGlobalInterceptors">>
        \o (IF shouldEnableSwagger(e)
            THEN <<"createDocument", "SwaggerModule.setup">>
            ELSE <<>>)

CacheHit_never == FALSE

\* if (cachedApp)
CacheHit == cachedApp # NULL

Pending == [kind |-> "pending", app |-> NULL, error |-> ""]

Fulfilled(a) == [kind |-> "fulfilled", app |-> a, error |-> ""]

\* the promise rejects with an Error whose message names the call that threw
Rejected(step) == [kind |-> "rejected", app |-> NULL, error |-> step]

NoResponse == [status |-> <<>>, json |-> <<>>]

\* what one run of the initialization sequence has done on its instance
NewRun(id) == [owner |-> id, constructed |-> FALSE, steps |-> <<>>, phase |-> "constructing"]

\* the instance's own state, as far as the calls of createNestApp set it
Interceptors(r) ==
    IF \E i \in 1..Len(r.steps) : r.steps[i] = "useGlobalInterceptors"
    THEN GlobalInterceptors ELSE <<>>

Docs(r) ==
    IF \E i \in 1..Len(r.steps) : r.steps[i] = "SwaggerModule.setup"
    THEN DocsPath ELSE ""

\* handler is called: it logs the request and calls createNestApp, which
\* returns the cached instance or calls NestFactory.create and suspends
Invoke(p) ==
    /\ pc[p] = "idle"
    /\ Len(observed) < MaxInvocations
    /\ observed' = Append(observed, cachedApp)
    /\ inv' = [inv EXCEPT ![p] = Len(observed) + 1]
    /\ IF CacheHit
       THEN /\ result' = [result EXCEPT ![p] = Fulfilled(cachedApp)]
            /\ pc' = [pc EXCEPT ![p] = "awaitApp"]
            /\ UNCHANGED <<runs, cur>>
       ELSE /\ runs' = Append(runs, NewRun(Len(observed) + 1))
            /\ cur' = [cur EXCEPT ![p] = Len(runs) + 1]
            /\ result' = [result EXCEPT ![p] = Pending]
            /\ pc' = [pc EXCEPT ![p] = "awaitCreate"]
    /\ UNCHANGED <<env, cachedApp, thrown, res, dispatched, dbOptions>>

ErrorResponse_leaksMessage(message) ==
    [ status |-> <<500>>,
      json   |-> << [statusCode |-> 500, message |-> message, error |-> message] >> ]

\* res.status(500).json({ statusCode, message, error: error.message })
ErrorResponse(message) ==
    [ status |-> <<500>>,
      json   |-> << [statusCode |-> 500,
                     message    |-> "Internal Server Error",
                     error      |-> message] >> ]

\* handler's catch block: the error is logged and answered, and handler returns.
\* A rejection of createNestApp() reaches it through handler's await; it reads
\* and writes nothing but the invocation's own `res`.
Catch(p, message) ==
    /\ thrown' = [thrown EXCEPT ![p] = message]
    /\ res' = [res EXCEPT ![p] = ErrorResponse(message)]
    /\ pc' = [pc EXCEPT ![p] = "returned"]

\* NestFactory.create rejects: no instance, createNestApp rejects
CreateFails(p) ==
    /\ pc[p] = "awaitCreate"
    /\ runs' = [runs EXCEPT ![cur[p]].phase = "failed"]
    /\ result' = [result EXCEPT ![p] = Rejected("NestFactory.create")]
    /\ Catch(p, "NestFactory.create")
    /\ UNCHANGED <<env, cachedApp, observed, inv, cur, dispatched, dbOptions>>

Configure_cachesEarly(p) ==
    /\ pc[p] = "awaitCreate"
    /\ runs' = [runs EXCEPT ![cur[p]].constructed = TRUE,
                            ![cur[p]].steps = <<"NestFactory.create">> \o SetupSteps(env),
                            ![cur[p]].phase = "initializing"]
    /\ cachedApp' = cur[p]
    /\ pc' = [pc EXCEPT ![p] = "awaitInit"]
    /\ UNCHANGED <<env, observed, inv, cur, result, thrown, res, dispatched, dbOptions>>

\* NestFactory.create resolves and every call up to app.init() returns:
\* createNestApp suspends at `await app.init()`
Configure(p) ==
    /\ pc[p] = "awaitCreate"
    /\ runs' = [runs EXCEPT ![cur[p]].constructed = TRUE,
                            ![cur[p]].steps = <<"NestFactory.create">> \o SetupSteps(env),
                            ![cur[p]].phase = "initializing"]
    /\ pc' = [pc EXCEPT ![p] = "awaitInit"]
    /\ UNCHANGED <<env, cachedApp, observed, inv, cur, result, thrown, res, dispatched, dbOptions>>

\* NestFactory.create resolves and the (k+1)-th call after it throws
ConfigureThrows(p) ==
    /\ pc[p] = "awaitCreate"
    /\ \E k \in 0..(Len(SetupSteps(env)) - 1) :
          /\ runs' = [runs EXCEPT
                        ![cur[p]].constructed = TRUE,
                        ![cur[p]].steps = <<"NestFactory.create">> \o SubSeq(SetupSteps(env), 1, k),
                        ![cur[p]].phase = "failed"]
          /\ result' = [result EXCEPT ![p] = Rejected(SetupSteps(env)[k + 1])]
          /\ Catch(p, SetupSteps(env)[k + 1])
    /\ UNCHANGED <<env, cachedApp, observed, inv, cur, dispatched, dbOptions>>

\* app.init() resolves: the instance is cached and returned
InitOk(p) ==
    /\ pc[p] = "awaitInit"
    /\ runs' = [runs EXCEPT ![cur[p]].steps = Append(@, "app.init"),
                            ![cur[p]].phase = "ready"]
    /\ cachedApp' = cur[p]
    /\ result' = [result EXCEPT ![p] = Fulfilled(cur[p])]
    /\ pc' = [pc EXCEPT ![p] = "awaitApp"]
    /\ UNCHANGED <<env, observed, inv, cur, thrown, res, dispatched, dbOptions>>

InitFails_retries(p) ==
    /\ pc[p] = "awaitInit"
    /\ runs' = Append([runs EXCEPT ![cur[p]].phase = "failed"], NewRun(inv[p]))
    /\ cur' = [cur EXCEPT ![p] = Len(runs) + 1]
    /\ pc' = [pc EXCEPT ![p] = "awaitCreate"]
    /\ UNCHANGED <<env, cachedApp, observed, inv, result, thrown, res, dispatched, dbOptions>>

InitFails_cachesAnyway(p) ==
    /\ pc[p] = "awaitInit"
    /\ runs' = [runs EXCEPT ![cur[p]].phase = "failed"]
    /\ cachedApp' = cur[p]
    /\ result' = [result EXCEPT ![p] = Rejected("app.init")]
    /\ Catch(p, "app.init")
    /\ UNCHANGED <<env, observed, inv, cur, dispatched, dbOptions>>

\* app.init() rejects: createNestApp rejects before the write to cachedApp
InitFails(p) ==
    /\ pc[p] = "awaitInit"
    /\ runs' = [runs EXCEPT ![cur[p]].phase = "failed"]
    /\ result' = [result EXCEPT ![p] = Rejected("app.init")]
    /\ Catch(p, "app.init")
    /\ UNCHANGED <<env, cachedApp, observed, inv, cur, dispatched, dbOptions>>

-----------------------------------------------------------------------------
(* handler, after createNestApp resolved *)

\* the express instance is fetched and called; handler returns what it returns
Dispatch(p) ==
    /\ pc[p] = "awaitApp"
    /\ dispatched' = [dispatched EXCEPT ![p] = result[p].app]
    /\ pc' = [pc EXCEPT ![p] = "returned"]
    /\ UNCHANGED <<env, cachedApp, runs, observed, inv, cur, result, thrown, res, dbOptions>>

\* getHttpAdapter, getInstance or the express call throws
DispatchThrows(p) ==
    /\ pc[p] = "awaitApp"
    /\ \E step \in {"getHttpAdapter", "getInstance", "expressApp"} :
          /\ Catch(p, step)
          /\ dispatched' = [dispatched EXCEPT ![p] =
                                IF step = "expressApp" THEN result[p].app ELSE NULL]
    /\ UNCHANGED <<env, cachedApp, runs, observed, inv, cur, result, dbOptions>>

\* The host has the answer and the slot is free for a later request.  Nothing
\* refers any more to the instance of a failed run: only its phase is kept.
Finish(p) ==
    /\ pc[p] = "returned"
    /\ pc' = [pc EXCEPT ![p] = "idle"]
    /\ inv' = [inv EXCEPT ![p] = 0]
    /\ cur' = [cur EXCEPT ![p] = NULL]
    /\ result' = [result EXCEPT ![p] = Pending]
    /\ thrown' = [thrown EXCEPT ![p] = ""]
    /\ res' = [res EXCEPT ![p] = NoResponse]
    /\ dispatched' = [dispatched EXCEPT ![p] = NULL]
    /\ runs' = IF cur[p] # NULL /\ runs[cur[p]].phase = "failed"
               THEN [runs EXCEPT ![cur[p]].steps = <<>>]
               ELSE runs
    /\ UNCHANGED <<env, cachedApp, observed, dbOptions>>

-----------------------------------------------------------------------------
(* Specifications *)

NoDatabaseEnv ==
    [ DATABASE_HOST     |-> Undefined,
      DATABASE_PORT     |-> [defined |-> FALSE, text |-> <<>>],
      DATABASE_USERNAME |-> Undefined,
      DATABASE_PASSWORD |-> Undefined,
      DATABASE_NAME     |-> Undefined ]

LifecycleInit ==
    /\ cachedApp = NULL
    /\ runs = <<>>
    /\ observed = <<>>
    /\ pc = [p \in Slots |-> "idle"]
    /\ inv = [p \in Slots |-> 0]
    /\ cur = [p \in Slots |-> NULL]
    /\ result = [p \in Slots |-> Pending]
    /\ thrown = [p \in Slots |-> ""]
    /\ res = [p \in Slots |-> NoResponse]
    /\ dispatched = [p \in Slots |-> NULL]

\* the process after the module is loaded, in production (no documentation)
\* and in development (documentation mounted)
Init ==
    /\ \E n \in {"production", "development"} :
          env = [NODE_ENV |-> n, SWAGGER_ENABLED |-> Undefined] @@ NoDatabaseEnv
    /\ dbOptions = <<>>
    /\ LifecycleInit

Next ==
    \E p \in Slots :
        \/ Invoke(p)
        \/ CreateFails(p)
        \/ Configure(p)
        \/ ConfigureThrows(p)
        \/ InitOk(p)
        \/ InitFails(p)
        \/ Dispatch(p)
        \/ DispatchThrows(p)
        \/ Finish(p)

\* handler invocations in any interleaving at their awaits
Spec == Init /\ [][Next]_vars

\* a request arrives only when no other is in flight
InvokeAlone(p) ==
    /\ \A q \in Slots : pc[q] = "idle"
    /\ Invoke(p)

SeqNext ==
    \E p \in Slots :
        \/ InvokeAlone(p)
        \/ CreateFails(p)
        \/ Configure(p)
        \/ ConfigureThrows(p)
        \/ InitOk(p)
        \/ InitFails(p)
        \/ Dispatch(p)
        \/ DispatchThrows(p)
        \/ Finish(p)

\* the process after the module is loaded, under any NODE_ENV and SWAGGER_ENABLED
SeqInit ==
    /\ \E n \in NodeEnvValues, s \in SwaggerEnabledValues :
          env = [NODE_ENV |-> n, SWAGGER_ENABLED |-> s] @@ NoDatabaseEnv
    /\ dbOptions = <<>>
    /\ LifecycleInit

\* handler invocations one after the other
SeqSpec == SeqInit /\ [][SeqNext]_vars

\* the factory registered as 'database' is called under any environment
ResolveDatabaseOptions ==
    /\ dbOptions' = <<databaseConfig(env)>>
    /\ UNCHANGED <<env, cachedApp, runs, observed, pc, inv, cur, result, thrown, res, dispatched>>

ConfigInit ==
    /\ env \in [ NODE_ENV          : NodeEnvValues,
                 SWAGGER_ENABLED   : {Undefined},
                 DATABASE_HOST     : {Undefined, "", "db.internal"},
                 DATABASE_PORT     : PortValues,
                 DATABASE_USERNAME : {Undefined, "admin"},
                 DATABASE_PASSWORD : {Undefined, "s3cret"},
                 DATABASE_NAME     : {Undefined, "school"} ]
    /\ dbOptions = <<>>
    /\ LifecycleInit

ConfigNext == ResolveDatabaseOptions

ConfigSpec == ConfigInit /\ [][ConfigNext]_vars

-----------------------------------------------------------------------------
(* Vocabulary of the properties *)

RunIds == 1..Len(runs)

IsPrefix(s, t) == Len(s) <= Len(t) /\ s = SubSeq(t, 1, Len(s))

\* the initialization sequence (a)-(i) as the specification orders it
StepOrder(withDocs) ==
    <<"NestFactory.create", "helmet", "compression", "enableCors", "setGlobalPrefix",
      "useGlobalPipes", "useGlobalFilters", "useGlobalInterceptors">>
        \o (IF withDocs THEN <<"createDocument", "SwaggerModule.setup">> ELSE <<>>)
        \o <<"app.init">>

\* the documentation is wanted: the flag is 'true' or the environment is not 'production'
DocsWanted == env.SWAGGER_ENABLED = "true" \/ env.NODE_ENV # "production"

\* every step (a)-(i) has completed on the instance of run i
FullyInitialized(i) ==
    /\ i \in RunIds
    /\ runs[i].phase = "ready"
    /\ runs[i].steps = StepOrder(DocsWanted)

\* the invocation in slot p found the cache populated at its null-check
SawCache(p) == inv[p] # 0 /\ observed[inv[p]] # NULL

\* no initialization is in flight
NoInitInFlight == \A q \in Slots : pc[q] \notin {"awaitCreate", "awaitInit"}

-----------------------------------------------------------------------------
(* C1 *)

\* C1 (as stated): in every reachable state at most one application instance
\* has been constructed in the process.
C1_AtMostOneConstructed ==
    Cardinality({i \in RunIds : runs[i].constructed}) <= 1

\* C1 (amended): NestFactory.create is called only by an invocation whose
\* null-check found cachedApp null, and at most once per invocation; cachedApp
\* holds null or one of the instances so constructed.
C1_ConstructedOnlyOnEmptyCache ==
    /\ \A i \in RunIds :
          /\ runs[i].owner \in 1..Len(observed)
          /\ observed[runs[i].owner] = NULL
    /\ \A i, j \in RunIds : runs[i].owner = runs[j].owner => i = j
    /\ cachedApp # NULL => cachedApp \in RunIds /\ runs[cachedApp].constructed

\* two invocations that both started before the cache was populated have each
\* constructed an instance
C1_Witness ==
    /\ Len(runs) >= 2
    /\ runs[1].constructed /\ runs[2].constructed
    /\ observed[runs[1].owner] = NULL /\ observed[runs[2].owner] = NULL
    /\ cachedApp # NULL

-----------------------------------------------------------------------------
(* C2 *)

\* C2: a step in which an initialization step throws leaves cachedApp as it
\* was and rejects createNestApp with that error; cachedApp is written only by
\* the step in which app.init() completes, with the instance it completed on;
\* so while no initialization has succeeded the cache is null.
C2_FailureLeavesCache ==
    [][ /\ \A p \in Slots :
              (cur[p] # NULL /\ runs[cur[p]].phase # "failed" /\ runs'[cur[p]].phase = "failed")
                  => /\ cachedApp' = cachedApp
                     /\ result'[p].kind = "rejected"
                     /\ thrown'[p] = result'[p].error
        /\ cachedApp' # cachedApp
              => \E p \in Slots :
                    /\ pc[p] = "awaitInit"
                    /\ cachedApp' = cur[p]
                    /\ runs'[cur[p]].phase = "ready"
                    /\ runs'[cur[p]].steps[Len(runs'[cur[p]].steps)] = "app.init"
        /\ (\A i \in 1..Len(runs') : runs'[i].phase # "ready") => cachedApp' = NULL
      ]_vars

\* the documentation setup of a first call threw: nothing is cached and the
\* caller answered 500 with the thrown message
C2_Witness ==
    \E p \in Slots :
        /\ pc[p] = "returned"
        /\ observed[inv[p]] = NULL
        /\ result[p] = Rejected("SwaggerModule.setup")
        /\ cachedApp = NULL
        /\ res[p].status = <<500>>
        /\ res[p].json[1].error = "SwaggerModule.setup"

-----------------------------------------------------------------------------
(* C3 *)

\* C3: no exception leaves handler; an invocation in which something threw has
\* written exactly one response, status 500 with the body { statusCode: 500,
\* message: 'Internal Server Error', error: <the thrown message> }, and an
\* invocation in which nothing threw has written no status and no body.
C3_HandlerAnswers ==
    \A p \in Slots :
        /\ pc[p] \in {"idle", "awaitCreate", "awaitInit", "awaitApp", "returned"}
        /\ pc[p] # "returned" => res[p] = NoResponse /\ thrown[p] = ""
        /\ result[p].kind = "rejected" => thrown[p] = result[p].error /\ pc[p] = "returned"
        /\ pc[p] = "returned" =>
              IF thrown[p] # ""
              THEN /\ res[p].status = <<500>>
                   /\ res[p].json = << [statusCode |-> 500,
                                        message    |-> "Internal Server Error",
                                        error      |-> thrown[p]] >>
              ELSE /\ res[p] = NoResponse
                   /\ dispatched[p] # NULL

\* one invocation answered 500 for a failed app.init() while another returned
\* after a dispatch without writing anything
C3_Witness ==
    \E p, q \in Slots :
        /\ pc[p] = "returned" /\ thrown[p] = "app.init" /\ res[p].status = <<500>>
        /\ pc[q] = "returned" /\ thrown[q] = "" /\ res[q] = NoResponse

-----------------------------------------------------------------------------
(* C4 *)

\* C4: a call of createNestApp that finds cachedApp non-null returns the cached
\* instance, starts no initialization and leaves cachedApp alone; such an
\* invocation dispatches to the instance it found; and once the cache is
\* populated with no initialization in flight, no further initialization is
\* ever started and cachedApp stays the same instance.
C4_CachedIsReturned ==
    [][ /\ \A p \in Slots :
              (pc[p] = "idle" /\ pc'[p] # "idle" /\ cachedApp # NULL)
                  => /\ pc'[p] = "awaitApp"
                     /\ result'[p] = Fulfilled(cachedApp)
                     /\ runs' = runs
                     /\ cachedApp' = cachedApp
        /\ \A p \in Slots :
              (SawCache(p) /\ dispatched'[p] # dispatched[p])
                  => dispatched'[p] \in {NULL, observed[inv[p]]}
        /\ (cachedApp # NULL /\ NoInitInFlight)
              => /\ Len(runs') = Len(runs)
                 /\ cachedApp' = cachedApp
                 /\ \A q \in Slots : pc'[q] \notin {"awaitCreate", "awaitInit"}
      ]_vars

\* after one initialization, the second and the third invocation have both
\* been served by the cached instance
C4_Witness ==
    /\ Len(runs) = 1 /\ cachedApp = 1
    /\ Len(observed) = 3 /\ observed[2] = 1 /\ observed[3] = 1
    /\ \E p \in Slots : pc[p] = "returned" /\ inv[p] = 3 /\ dispatched[p] = 1

-----------------------------------------------------------------------------
(* C5 *)

\* C5: (1) no more initialization sequences have been started than there were
\* invocations; (2) an invocation that found the cache populated receives the
\* handle it found; (3) every handle createNestApp returned, every handle a
\* request was dispatched to and the cached handle are fully initialized.
C5_RaceIsBenign ==
    /\ Len(runs) <= Len(observed)
    /\ \A p \in Slots :
          (SawCache(p) /\ pc[p] \in {"awaitApp", "returned"})
              => result[p] = Fulfilled(observed[inv[p]])
    /\ \A p \in Slots :
          /\ result[p].kind = "fulfilled" => FullyInitialized(result[p].app)
          /\ dispatched[p] # NULL => FullyInitialized(dispatched[p])
    /\ cachedApp # NULL => FullyInitialized(cachedApp)

\* two concurrent first calls each got their own initialized instance, and the
\* later one holds the cache slot
C5_Witness ==
    /\ Len(runs) = 2
    /\ \E p, q \in Slots :
          /\ pc[p] = "awaitApp" /\ pc[q] = "awaitApp"
          /\ result[p] = Fulfilled(1) /\ result[q] = Fulfilled(2)
          /\ observed[inv[p]] = NULL /\ observed[inv[q]] = NULL
    /\ cachedApp = 2

-----------------------------------------------------------------------------
(* C6 *)

\* C6: an initialization that got past the documentation step has mounted the
\* documentation, at 'api/docs', if and only if SWAGGER_ENABLED is 'true' or
\* NODE_ENV is not 'production'; no initialization mounts it otherwise.
C6_DocsMounted ==
    \A i \in RunIds :
        /\ Docs(runs[i]) \in {"", "api/docs"}
        /\ Docs(runs[i]) = "api/docs" => DocsWanted
        /\ runs[i].phase \in {"initializing", "ready"}
              => (Docs(runs[i]) = "api/docs" <=> DocsWanted)

\* one initialization mounted the documentation in staging with the flag unset
C6_Witness ==
    /\ env.NODE_ENV = "staging" /\ env.SWAGGER_ENABLED = Undefined
    /\ \E i \in RunIds : runs[i].phase = "ready" /\ Docs(runs[i]) = "api/docs"

-----------------------------------------------------------------------------
(* C7 *)

AllDatabaseEnvUnset ==
    /\ env.NODE_ENV = Undefined
    /\ env.DATABASE_HOST = Undefined
    /\ ~env.DATABASE_PORT.defined
    /\ env.DATABASE_USERNAME = Undefined
    /\ env.DATABASE_PASSWORD = Undefined
    /\ env.DATABASE_NAME = Undefined

\* C7: synchronize is true exactly when NODE_ENV is not 'production', logging
\* exactly when it is 'development', ssl is enabled (rejectUnauthorized false)
\* exactly when it is 'production'; so ssl excludes synchronize and logging;
\* and with no variable set the options are the defaults.
C7_DerivedFlags ==
    dbOptions # <<>> =>
        LET o == dbOptions[1] IN
        /\ o.synchronize <=> env.NODE_ENV # "production"
        /\ o.logging <=> env.NODE_ENV = "development"
        /\ o.ssl.enabled <=> env.NODE_ENV = "production"
        /\ o.ssl.enabled => ~o.ssl.rejectUnauthorized
        /\ ~(o.synchronize /\ o.ssl.enabled)
        /\ ~(o.logging /\ o.ssl.enabled)
        /\ AllDatabaseEnvUnset =>
              /\ o.host = "localhost" /\ o.port = 5432
              /\ o.username = "student_api" /\ o.password = "password"
              /\ o.database = "student_db"
              /\ o.synchronize /\ ~o.logging /\ ~o.ssl.enabled

\* the options were resolved in production with no other variable set
C7_Witness ==
    /\ dbOptions # <<>>
    /\ env.NODE_ENV = "production"
    /\ ~env.DATABASE_PORT.defined /\ env.DATABASE_HOST = Undefined
    /\ dbOptions[1].ssl.enabled /\ ~dbOptions[1].synchronize /\ ~dbOptions[1].logging

-----------------------------------------------------------------------------
(* C8 *)

\* C8: the resolved port is the integer parsed from DATABASE_PORT whenever it
\* parses as an integer, 0 included, and the default 5432 exactly when the
\* variable is absent or unparsable.
C8_PortIsParsedOrDefault ==
    dbOptions # <<>> =>
        LET parsed == parseInt(env.DATABASE_PORT) IN
        dbOptions[1].port = IF parsed.nan THEN 5432 ELSE parsed.value

-----------------------------------------------------------------------------
(* C9 *)

\* C9: the steps done on every instance are an initial part of the fixed
\* order construct, helmet, compression, CORS, prefix, pipes, filters,
\* interceptors (logging before transform), optional documentation, app.init;
\* and a cached instance has them all, app.init included.
C9_StepOrder ==
    /\ \A i \in RunIds :
          /\ IsPrefix(runs[i].steps, StepOrder(TRUE)) \/ IsPrefix(runs[i].steps, StepOrder(FALSE))
          /\ Interceptors(runs[i]) \in {<<>>, <<"LoggingInterceptor", "TransformInterceptor">>}
          /\ runs[i].phase = "initializing"
                => Append(runs[i].steps, "app.init") \in {StepOrder(TRUE), StepOrder(FALSE)}
    /\ cachedApp # NULL =>
          /\ runs[cachedApp].steps \in {StepOrder(TRUE), StepOrder(FALSE)}
          /\ Interceptors(runs[cachedApp]) = <<"LoggingInterceptor", "TransformInterceptor">>
          /\ runs[cachedApp].phase = "ready"

\* an instance is cached while another run, suspended at app.init(), has done
\* every step before it
C9_Witness ==
    /\ cachedApp # NULL
    /\ \E i \in RunIds :
          /\ runs[i].phase = "initializing"
          /\ Len(runs[i].steps) = Len(runs[cachedApp].steps) - 1

-----------------------------------------------------------------------------
(* C10 *)

\* C10: with invocations one after the other, an invocation whose
\* initialization failed leaves the cache empty; an invocation that finds it
\* empty starts a fresh initialization at NestFactory.create; when app.init()
\* of that run completes the instance is cached and returned; and no
\* invocation starts more than one initialization.
C10_RetryOnNextInvocation ==
    [][ /\ \A p \in Slots :
              (pc'[p] = "returned" /\ result'[p].kind = "rejected") => cachedApp' = NULL
        /\ \A p \in Slots :
              (pc[p] = "idle" /\ pc'[p] # "idle" /\ cachedApp = NULL)
                  => /\ pc'[p] = "awaitCreate"
                     /\ runs' = Append(runs, NewRun(inv'[p]))
                     /\ cur'[p] = Len(runs')
        /\ \A p \in Slots :
              (pc[p] = "awaitInit" /\ pc'[p] = "awaitApp")
                  => cachedApp' = cur[p] /\ result'[p] = Fulfilled(cur[p])
        /\ \A i, j \in 1..Len(runs') : runs'[i].owner = runs'[j].owner => i = j
      ]_vars

\* the first invocation failed in app.init(); the second initialized a new
\* instance, which is cached, and its request was dispatched to it
C10_Witness ==
    /\ Len(runs) = 2
    /\ runs[1].phase = "failed" /\ runs[1].constructed
    /\ runs[2].phase = "ready" /\ cachedApp = 2
    /\ \E p \in Slots :
          /\ pc[p] = "returned" /\ inv[p] = 2
          /\ dispatched[p] = 2 /\ res[p] = NoResponse

====
